---- MODULE Spec2Model ----
(***************************************************************************)
(* fetch-forum-topic-ng: a mirror of a paginated forum thread.             *)
(*                                                                         *)
(* The model follows the latest variant of the tool                        *)
(* (src/unnamed/part_000, lines 455-1105): main computes the page set,     *)
(* creates the failure ledger, spawns one goroutine per page and waits;    *)
(* each page task fetches the page, rewrites it token by token and, from   *)
(* its deferred function, appends its page number to the ledger if its     *)
(* error variable is set.                                                  *)
(***************************************************************************)
EXTENDS Integers, Sequences, FiniteSets, TLC

(* ------------------------------ bounds -------------------------------- *)

\* Largest page number a range token may name.
MaxPage == 2
\* Number of consecutive runs of the tool against the same target directory.
MaxRuns == 2
\* Number of times the extension normalizer is applied to one filename.
MaxApplications == 2
\* Highest archive index failures.lst.<N> present in the modelled directory.
MaxArchive == 2
\* Iterations after which the archive-name loop is reported as not ending.
MaxLoop == 3
\* Longest CSS text, in lexical pieces, handed to the CSS link rewriter.
MaxCSSLen == 4
\* Number of nested stylesheets after which the server stops answering.
MaxDepth == 2

(* --------------------------- program constants ------------------------ *)

failureListFileBasename == "failures.lst"

\* const forumTopicMinPageNumber uint = 1
forumTopicMinPageNumber == 1

\* The default of -s, and the URL argument of the runs.
forumTopicPostStep == 15
forumTopicPageURLBase == "http://forum.example/topic?start="

\* The -t directory, and main's local failureListFilename.
TargetDir == "t"
Join(dir, base) == dir \o "/" \o base
mainFailureListFilename == Join(TargetDir, failureListFileBasename)

\* A package-level variable that holds the path main computes.
FailureListFilenameAssigned == Join(TargetDir, failureListFileBasename)

\* The zero value of the package-level string failureListFilename.  main
\* declares a local of the same name with := and never assigns the global.
GlobalFailureListFilenameInit == ""

PageNumbers == forumTopicMinPageNumber .. MaxPage
\* No page holds the mutex / no page has brought the process down.
NoPage == 0 - 1

(* ------------------------ text <-> number conversions ------------------ *)

Decimal == <<"0", "1", "2", "3", "4", "5", "6", "7", "8", "9">>

RECURSIVE DecimalString(_)
\* fmt.Sprint / fmt.Sprintf("%d") of an unsigned number.
DecimalString(n) ==
    IF n < 10 THEN Decimal[n + 1]
    ELSE DecimalString(n \div 10) \o Decimal[(n % 10) + 1]

\* postOffset, line 849: forumTopicPostStep * (pageNumber - 1) in the uint
\* arithmetic of a 64-bit platform, that is modulo 2^64.  The value is kept
\* as four 16-bit limbs, the most significant first.
postOffset(pageNumber) ==
    LET n0 == forumTopicPostStep * (pageNumber - 1)
        n1 == n0 \div 65536
        n2 == n1 \div 65536
        n3 == n2 \div 65536
    IN  <<n3 % 65536, n2 % 65536, n1 % 65536, n0 % 65536>>

RECURSIVE Uint64String(_)
\* fmt.Sprintf("%d") of a uint given by its limbs, line 850.
Uint64String(l) ==
    LET t3 == l[1]
        t2 == (t3 % 10) * 65536 + l[2]
        t1 == (t2 % 10) * 65536 + l[3]
        t0 == (t1 % 10) * 65536 + l[4]
        q == <<t3 \div 10, t2 \div 10, t1 \div 10, t0 \div 10>>
    IN  IF q = <<0, 0, 0, 0>> THEN Decimal[(t0 % 10) + 1]
        ELSE Uint64String(q) \o Decimal[(t0 % 10) + 1]

\* fmt.Sscanf(line, "%d", &n) for a line of one digit: the number, or -1
\* when the scan fails.
Sscanf(line) ==
    IF \E n \in 0 .. 9 : Decimal[n + 1] = line
    THEN CHOOSE n \in 0 .. 9 : Decimal[n + 1] = line
    ELSE -1

\* fmt.Sprintln(pageNumber) as one ledger line.
Sprintln(n) == DecimalString(n)

(* ------------------------------ file system --------------------------- *)

\* fmt.Sprintf("%s.%d", failureListFilename, i)
ArchiveName(name, i) == name \o "." \o DecimalString(i)

LedgerPaths ==
    {mainFailureListFilename} \cup
    {ArchiveName(mainFailureListFilename, i) : i \in 0 .. MaxArchive}

NoFile == [exists |-> FALSE, lines |-> <<>>]
EmptyFile == [exists |-> TRUE, lines |-> <<>>]

\* os.Open / os.Stat succeed: the empty path and every path outside the
\* directory do not exist (ENOENT).
FileExists(fs, name) == name \in DOMAIN fs /\ fs[name].exists

\* os.Rename(from, to): an existing `to` is replaced.
Rename(fs, from, to) ==
    IF to \in DOMAIN fs
    THEN [fs EXCEPT ![to] = fs[from], ![from] = NoFile]
    ELSE [fs EXCEPT ![from] = NoFile]

\* os.Create(name): creates or truncates.
Create(fs, name) == [fs EXCEPT ![name] = EmptyFile]

RECURSIVE ScanLines(_)
\* The bufio.Scanner loop: lines that do not scan as a number are skipped.
ScanLines(lines) ==
    IF lines = <<>> THEN <<>>
    ELSE LET n == Sscanf(Head(lines))
         IN  IF n = -1 THEN ScanLines(Tail(lines))
             ELSE <<n>> \o ScanLines(Tail(lines))

RECURSIVE ArchiveLoop(_, _, _, _)
\* for ; err == nil; _, err = os.Stat(archivedFailureListFilename) { i++ }
\* The name that is stat'ed is computed once, before the loop, with i = 0.
\* -1 stands for a loop that does not end.
ArchiveLoop(fs, archived, i, errIsNil) ==
    IF ~errIsNil THEN i
    ELSE IF i >= MaxLoop THEN -1
    ELSE ArchiveLoop(fs, archived, i + 1, FileExists(fs, archived))

\* getFailedDownloads: reads the package-level failureListFilename `name`.
\* openOK is the outcome of os.Open on an existing file.
getFailedDownloads(fs, name, openOK) ==
    IF ~FileExists(fs, name)
    THEN [failed |-> <<>>, files |-> fs, hangs |-> FALSE]
    ELSE IF ~openOK
    THEN [failed |-> <<>>, files |-> fs, hangs |-> FALSE]
    ELSE LET failed == ScanLines(fs[name].lines)
             i == ArchiveLoop(fs, ArchiveName(name, 0), 0, TRUE)
         IN  IF i = -1
             THEN [failed |-> failed, files |-> fs, hangs |-> TRUE]
             ELSE [failed |-> failed,
                   files |-> Rename(fs, name, ArchiveName(name, i)),
                   hangs |-> FALSE]

Range(seq) == {seq[k] : k \in 1 .. Len(seq)}

(* ------------------------------ page ranges --------------------------- *)

\* A range token "first..last", or a single number "last".
RangeTokens ==
    [kind : {"range"}, first : PageNumbers, last : 1 .. MaxPage] \cup
    [kind : {"single"}, first : {forumTopicMinPageNumber}, last : 1 .. MaxPage]

\* Sscanf("%d..%d") and, when it fails, Sscanf("%d") with first = 1;
\* then for j := first; j <= last; j++.
PagesOfToken(tok) == tok.first .. tok.last

\* The numbers a range token can hold from 0 on: both are scanned into a
\* uint with %d and neither is compared with forumTopicMinPageNumber.
UintPageNumbers == 0 .. MaxPage

\* The range tokens "first..last" and "last" over these numbers.
UintRangeArgs ==
    {<<t>> : t \in [kind : {"range"}, first : UintPageNumbers,
                                      last : UintPageNumbers] \cup
                   [kind : {"single"}, first : {forumTopicMinPageNumber},
                                       last : UintPageNumbers]}

\* At most one range token on the command line.
RangeArgs == {<<>>} \cup {<<t>> : t \in RangeTokens}

PagesOfArgs(args) == UNION {PagesOfToken(args[k]) : k \in 1 .. Len(args)}

(* ------------------------------ page markup --------------------------- *)

\* html.Token: Type, Data (the tag name, DataAtom) and Attr.
NoToken == [type |-> "none", data |-> "", attr |-> <<>>]
Tok(type, data, attr) == [type |-> type, data |-> data, attr |-> attr]
Attr(key, val) == [key |-> key, val |-> val]

DoctypeTok == Tok("Doctype", "html", <<>>)
DivTok == Tok("StartTag", "div", <<>>)
StyledDivTok == Tok("StartTag", "div", <<Attr("style", "color:red")>>)

ImgTok(src) == Tok("SelfClosingTag", "img", <<Attr("src", src)>>)
StylesheetTok(href) ==
    Tok("SelfClosingTag", "link", <<Attr("rel", "stylesheet"), Attr("href", href)>>)
StyledUrlDivTok ==
    Tok("StartTag", "div", <<Attr("style", "background:url('img/a.png')")>>)

\* Page bodies served to the orchestration runs: a page that starts with a
\* doctype, one that starts with a start tag, and one with a style attribute.
OrchestratorBodies ==
    { <<DoctypeTok>>, <<DivTok>>, <<DoctypeTok, StyledDivTok>> }

\* Page bodies served to the single-page runs: two references to one image
\* (written differently), a stylesheet that references the image, the same
\* stylesheet twice, an inline style that references the image.
PageBodies ==
    { <<DoctypeTok, ImgTok("img/a.png"), ImgTok("/img/a.png")>>,
      <<DoctypeTok, StylesheetTok("s.css"), ImgTok("img/a.png")>>,
      <<DoctypeTok, StylesheetTok("s.css"), StylesheetTok("s.css")>>,
      <<DoctypeTok, StyledUrlDivTok, ImgTok("img/a.png")>> }

ATok(href) == Tok("StartTag", "a", <<Attr("href", href)>>)
StyledATok ==
    Tok("StartTag", "a",
        <<Attr("style", "background:url('img/a.png')"), Attr("href", "p2")>>)

\* Page bodies with a hyperlink whose style attribute stands after its href
\* and its rel; with tags that have two candidate link attributes, both
\* matched by atom, or one matched by atom followed by one matched by
\* string; with a style element and its text.
StyleAndMultiLinkBodies ==
    { <<DoctypeTok,
        Tok("StartTag", "a",
            <<Attr("href", "p2"), Attr("rel", "nofollow"),
              Attr("style", "background:url('img/a.png')")>>)>>,
      <<DoctypeTok,
        Tok("SelfClosingTag", "input",
            <<Attr("src", "img/a.png"), Attr("formaction", "p2")>>)>>,
      <<DoctypeTok,
        Tok("SelfClosingTag", "img",
            <<Attr("src", "img/a.png"), Attr("lowsrc", "/img/a.png?v=1")>>)>>,
      <<DoctypeTok,
        Tok("SelfClosingTag", "img",
            <<Attr("src", "img/a.png"), Attr("longdesc", "p2")>>)>>,
      <<DoctypeTok,
        Tok("StartTag", "style", <<>>),
        Tok("Text", "body{background:url('img/a.png')}", <<>>)>> }

\* Start tags with one link attribute and at most one rel attribute, before
\* or after it: every element kind, link attribute and rel value the test of
\* line 965 tells apart, and some it does not.
ClassifiedElements == {"a", "area", "embed", "link", "img", "form", "script"}
ClassifiedAttributes == {"action", "formaction", "href", "src", "background"}
RelValues ==
    {"stylesheet", "alternate stylesheet", "icon", "shortcut icon",
     "nofollow", ""}
ClassifiedAttrs ==
    {<<Attr(k, "/img/a.png")>> : k \in ClassifiedAttributes} \cup
    {<<Attr("rel", r), Attr(k, "/img/a.png")>> :
        r \in RelValues, k \in ClassifiedAttributes} \cup
    {<<Attr(k, "/img/a.png"), Attr("rel", r)>> :
        r \in RelValues, k \in ClassifiedAttributes}
ClassifiedTokens ==
    {Tok("StartTag", el, at) : el \in ClassifiedElements, at \in ClassifiedAttrs}

\* Page bodies served to the runs that exercise the link rewriting: one tag
\* of each classified kind after a doctype; stylesheets in the page's
\* directory and below it; a resource with a query; a resource and a
\* hyperlink on another host; a relative hyperlink after a doctype, as the
\* first token of the page and on an element that also has a style; a
\* stylesheet that imports itself.
LinkBodies ==
    {<<DoctypeTok, t>> : t \in ClassifiedTokens} \cup
    StyleAndMultiLinkBodies \cup
    { <<DoctypeTok, StylesheetTok("s.css")>>,
      <<DoctypeTok, StylesheetTok("/s.css")>>,
      <<DoctypeTok, StylesheetTok("css/t.css")>>,
      <<DoctypeTok, StylesheetTok("c.css")>>,
      <<DoctypeTok, ImgTok("/img/a.png?v=1")>>,
      <<DoctypeTok, ImgTok("http://other.example/b.png")>>,
      <<DoctypeTok, ATok("http://other.example/x")>>,
      <<DoctypeTok, ATok("p2")>>,
      <<DoctypeTok, StyledATok>>,
      <<ATok("p2")>> }

\* Page bodies served to the runs of two pages: an image, and a stylesheet
\* that references the same image.
CacheBodies ==
    { <<DoctypeTok, ImgTok("img/a.png")>>,
      <<DoctypeTok, StylesheetTok("s.css")>> }

\* The command line of the runs of two pages: the range token "2".
CacheArgs ==
    { << [kind |-> "single", first |-> forumTopicMinPageNumber, last |-> 2] >> }

\* The command line of the single-page runs: the range token "1".
PageArgs ==
    { << [kind |-> "single", first |-> forumTopicMinPageNumber, last |-> 1] >> }

(* ------------------------- links and resources ------------------------ *)

\* url.Parse of a link: "bad" when it fails, "opaque" when URL.Opaque is
\* set, "nopath" when URL.Path is empty, "hier" otherwise.
LinkKind(link) ==
    CASE link = "%zz" -> "bad"
      [] link = "mailto:x" -> "opaque"
      [] link \in {"", "#top"} -> "nopath"
      [] OTHER -> "hier"

\* base.ResolveReference(link).String().  The page (/topic) and the
\* stylesheet (/s.css) both lie in the root directory of forum.example, so
\* a relative link resolves alike against either.
ResolveReference(base, link) ==
    CASE link \in {"img/a.png", "/img/a.png"} -> "http://forum.example/img/a.png"
      [] link \in {"s.css", "/s.css"} -> "http://forum.example/s.css"
      [] link = "css/t.css" -> "http://forum.example/css/t.css"
      [] link = "c.css" -> "http://forum.example/c.css"
      [] link = "/img/a.png?v=1" -> "http://forum.example/img/a.png?v=1"
      [] link = "p2" -> "http://forum.example/p2"
      [] link = "#top" -> base \o "#top"
      [] link = "" -> base
      [] OTHER -> link

\* The Content-Type header the server sends with a resource.
ContentTypeOf(url) ==
    IF url \in {"http://forum.example/s.css", "http://forum.example/css/t.css",
               "http://forum.example/c.css"}
    THEN "text/css"
    ELSE "image/png"

\* The body the server sends for a stylesheet; c.css imports itself.
BodyOf(url) ==
    IF url = "http://forum.example/s.css"
    THEN "body{background:url('img/a.png')}"
    ELSE IF url = "http://forum.example/c.css"
    THEN "@import url('c.css');"
    ELSE ""

\* strings.HasPrefix(contentType, "text/css")
IsCSS(contentType) == contentType = "text/css"

\* The links of the successive cssURLMatcher matches in a CSS text.
CSSLinks(css) ==
    IF css \in {"body{background:url('img/a.png')}", "background:url('img/a.png')"}
    THEN <<"img/a.png">>
    ELSE IF css = "@import url('c.css');"
    THEN <<"c.css">>
    ELSE <<>>

Ref(link, kind) == [link |-> link, kind |-> kind]

\* Entries of a task's log.  "get": http.Get(url) was called.  "return":
\* getAndWriteResourceToFile returned; failed tells whether the GET, the
\* creation of the file or its writing failed, result whether the returned
\* err was nil ("ok", the content type is then stored in the map) or not
\* ("error").  "ref": a reference was dealt with; result is "localized",
\* "absolute" or "unmodified", reference the text the attribute or the url()
\* span holds afterwards.  "write": a start tag with a link attribute was
\* handed to contentFile.WriteString; token is the tag as the tokenizer
\* delivered it, reference the value its link attribute is written with.
GetEvent(url) ==
    [ev |-> "get", url |-> url, link |-> "", result |-> "",
     contentType |-> "", failed |-> FALSE, token |-> NoToken,
     reference |-> ""]
ReturnEvent(url, contentType, failed, errIsSet) ==
    [ev |-> "return", url |-> url, link |-> "",
     result |-> IF errIsSet THEN "error" ELSE "ok",
     contentType |-> contentType, failed |-> failed, token |-> NoToken,
     reference |-> ""]
RefEvent(link, url, result, contentType, reference) ==
    [ev |-> "ref", url |-> url, link |-> link, result |-> result,
     contentType |-> contentType, failed |-> FALSE, token |-> NoToken,
     reference |-> reference]
WriteEvent(tok, link, reference) ==
    [ev |-> "write", url |-> "", link |-> link, result |-> "",
     contentType |-> "", failed |-> FALSE, token |-> tok,
     reference |-> reference]

RECURSIVE CSSRefs(_)
CSSRefs(links) ==
    IF links = <<>> THEN <<>>
    ELSE <<Ref(Head(links), "css")>> \o CSSRefs(Tail(links))

\* strings.Contains(rel, "stylesheet") || ... "icon" || ... "shortcut"
IsRelInline(rel) ==
    rel \in {"stylesheet", "alternate stylesheet", "icon", "shortcut icon"}

\* The test of line 965 without its last operand: a link element is
\* requisite whatever its rel.
IsRequisiteWhateverRel(linkURIAttrAtom, dataAtom, hasRel, rel) ==
    /\ linkURIAttrAtom # "action"
    /\ linkURIAttrAtom # "formaction"
    /\ \/ linkURIAttrAtom # "href"
       \/ /\ dataAtom # "a"
          /\ dataAtom # "area"
          /\ dataAtom # "embed"

\* The test of line 965: TRUE when the link is fetched and localized, FALSE
\* when it is only made absolute.
IsRequisite(linkURIAttrAtom, dataAtom, hasRel, rel) ==
    /\ linkURIAttrAtom # "action"
    /\ linkURIAttrAtom # "formaction"
    /\ \/ linkURIAttrAtom # "href"
       \/ /\ dataAtom # "a"
          /\ dataAtom # "area"
          /\ dataAtom # "embed"
          /\ (dataAtom # "link" \/ (hasRel /\ IsRelInline(rel)))

\* A lookup that never finds the resource.
WasResourceFetchedNever(cache, url) == FALSE

\* _, wasResourceFetched := context.fetchedResources[url]
WasResourceFetched(cache, url) == \E e \in cache : e[1] = url

\* contentType := context.fetchedResources[url] ("" when absent)
CachedContentType(cache, url) ==
    IF WasResourceFetched(cache, url)
    THEN (CHOOSE e \in cache : e[1] = url)[2]
    ELSE ""

\* context.fetchedResources[url] = contentType
CachePut(cache, url, contentType) ==
    {e \in cache : e[1] # url} \cup {<<url, contentType>>}

\* The err that getAndWriteResourceToFile returns for a stylesheet: the
\* result of file.Write is assigned to the err declared inside the if block
\* (line 729), so the function's own err is still the one of
\* openFileForResourceContent.
ErrAfterCSSWrite(openFailed, writeFailed) == openFailed

\* The err that getAndWriteResourceToFile returns for any other resource:
\* the result of WriteTo, which fails on a nil file.
ErrAfterWriteTo(openFailed, writeFailed) == openFailed \/ writeFailed

(* ------------------------- filename extensions ------------------------ *)

\* A filename or relative reference is a sequence of lexical pieces: the
\* separator, an extension (a dot and the letters after it), "%3F", or any
\* other run of characters.  Its text is the concatenation of the pieces.
Separator == "/"

RECURSIVE Text(_)
Text(filename) ==
    IF filename = <<>> THEN "" ELSE Head(filename) \o Text(Tail(filename))

\* The names the bracket patterns of lines 574-591 accept, in some of their
\* spellings.
HTMLNames == {".html", ".HTML", ".Html"}
HTMNames == {".htm", ".HTM"}
CSSNames == {".css", ".CSS", ".Css"}
AtomNames == {".atom", ".ATOM"}
RSSNames == {".rss", ".RSS"}

\* filepath.Match("*" + one of names, filename): the star matches any run of
\* characters that are not the separator, and the pattern has to match the
\* whole name.
Match(names, filename) ==
    /\ filename # <<>>
    /\ \A k \in 1 .. Len(filename) : filename[k] # Separator
    /\ filename[Len(filename)] \in names

\* The Content-Type header values of the model.
ContentTypes ==
    {"text/html", "text/html; charset=utf-8", "application/xhtml+xml",
     "text/css", "text/css; charset=utf-8", "application/atom+xml",
     "application/rss+xml", "image/png", ""}

\* strings.HasPrefix(contentType, prefix) on ContentTypes.
HasPrefix(contentType, prefix) ==
    contentType \in {prefix, prefix \o "; charset=utf-8"}

\* adjustResourceFilenameExtension, lines 572-597.
adjustResourceFilenameExtension(filename, contentType) ==
    IF \/ HasPrefix(contentType, "text/html")
       \/ HasPrefix(contentType, "application/xhtml+xml")
    THEN IF ~Match(HTMLNames, filename) /\ ~Match(HTMNames, filename)
         THEN Append(filename, ".html") ELSE filename
    ELSE IF HasPrefix(contentType, "text/css")
    THEN IF ~Match(CSSNames, filename)
         THEN Append(filename, ".css") ELSE filename
    ELSE IF HasPrefix(contentType, "application/atom+xml")
    THEN IF ~Match(AtomNames, filename)
         THEN Append(filename, ".atom") ELSE filename
    ELSE IF HasPrefix(contentType, "application/rss+xml")
    THEN IF ~Match(RSSNames, filename)
         THEN Append(filename, ".rss") ELSE filename
    ELSE filename

\* URL.Path of the URLs of the model, as the sequence of its segments, each
\* a sequence of pieces.  Every page URL has the path /topic.
PathOf(url) ==
    CASE url \in {"http://forum.example/img/a.png",
                  "http://forum.example/img/a.png?v=1"} ->
             << <<"img">>, <<"a", ".png">> >>
      [] url = "http://forum.example/s.css" -> << <<"s", ".css">> >>
      [] url = "http://forum.example/css/t.css" -> << <<"css">>, <<"t", ".css">> >>
      [] url = "http://forum.example/c.css" -> << <<"c", ".css">> >>
      [] url = "http://other.example/b.png" -> << <<"b", ".png">> >>
      [] url = "http://forum.example/p2" -> << <<"p2">> >>
      [] OTHER -> << <<"topic">> >>

\* URL.RawQuery of a resource URL.
RawQueryOf(url) ==
    IF url = "http://forum.example/img/a.png?v=1" THEN "v=1" ELSE ""

\* URL.Opaque of an opaque link.
OpaqueOf(link) == IF link = "mailto:x" THEN <<"x">> ELSE <<>>

\* filepath.Dir of an absolute path.
Dir(path) == SubSeq(path, 1, Len(path) - 1)

RECURSIVE CommonPrefix(_, _)
CommonPrefix(a, b) ==
    IF a # <<>> /\ b # <<>> /\ Head(a) = Head(b)
    THEN 1 + CommonPrefix(Tail(a), Tail(b))
    ELSE 0

\* filepath.Rel(basepath, targpath) for two absolute, clean paths.
Rel(basepath, targpath) ==
    LET c == CommonPrefix(basepath, targpath)
        ups == [k \in 1 .. Len(basepath) - c |-> <<"..">>]
        rest == SubSeq(targpath, c + 1, Len(targpath))
    IN  IF ups \o rest = <<>> THEN << <<".">> >> ELSE ups \o rest

RECURSIVE ToSlash(_)
\* The segments of a relative path written with "/" between them.
ToSlash(segments) ==
    IF Len(segments) = 1 THEN Head(segments)
    ELSE Head(segments) \o <<Separator>> \o ToSlash(Tail(segments))

\* The reference handed to context.replaceResourceReference, lines 651-662
\* (hierarchical link) and 674-679 (opaque link).
LocalReference(baseURL, url, link, contentType) ==
    LET relativeReference ==
            IF LinkKind(link) = "hier"
            THEN ToSlash(Rel(Dir(PathOf(baseURL)), PathOf(url)))
            ELSE OpaqueOf(link)
        withQuery ==
            IF RawQueryOf(url) # ""
            THEN relativeReference \o <<"%3F", RawQueryOf(url)>>
            ELSE relativeReference
    IN  Text(adjustResourceFilenameExtension(withQuery, contentType))

\* The filenames the normalizer is applied to: with and without a directory,
\* with and without a stem, with each extension and with none.
Filenames ==
    {dir \o stem \o ext :
        dir \in {<<>>, <<Separator>>, <<"d", Separator>>},
        stem \in {<<>>, <<"a">>},
        ext \in {<<>>, <<".png">>} \cup
               {<<e>> : e \in HTMLNames \cup HTMNames \cup CSSNames
                                \cup AtomNames \cup RSSNames}}

(* ------------------------------- state -------------------------------- *)

VARIABLES
    run,                    \* number of the current run of the tool
    mainpc,                 \* position of main
    files,                  \* ledger and archive files of the target directory
    failureListFilename,    \* the package-level variable (never assigned)
    pageDirs,               \* page numbers whose <targetDir>/<n> directory exists
    force,                  \* -f
    urlParses,              \* url.Parse accepts template + offset
    failedPageNumbers,      \* main's set of pages recovered from the ledger
    forumTopicPageNumbers,  \* main's effective page set
    pending,                \* pages the spawn loop has not yet visited
    failureListFile,        \* the shared *os.File: "nil", "open", "closed"
    failureListFileMutex,   \* page holding the mutex, or NoPage
    workers,                \* the sync.WaitGroup counter
    tasks,                  \* per page: the goroutine's locals
    crashedBy,              \* page whose panic ended the process, or NoPage
    prevFiles,              \* the ledger files as they were when the run started
    bodies,                 \* page bodies the server may answer with
    rangeArgs,              \* command lines (range tokens) a run may be given
    args,                   \* the range tokens of the current run's command line
    filenames,              \* successive values of one filename being normalized
    filenameContentType,    \* the content type it is normalized for
    cssScan                 \* one call of fetchLinkedResourcesInCSS: its locals

vars == <<run, mainpc, files, failureListFilename, pageDirs, force, urlParses,
          failedPageNumbers, forumTopicPageNumbers, pending, failureListFile,
          failureListFileMutex, workers, tasks, crashedBy, prevFiles, bodies,
          rangeArgs, args, filenames, filenameContentType,
                   cssScan>>

\* A goroutine that has not been spawned.
IdleTask ==
    [pc |-> "idle",
     err |-> FALSE,           \* err != nil
     readerNil |-> FALSE,     \* contentReader == nil
     fileNil |-> FALSE,       \* contentFile == nil
     writeFailed |-> FALSE,   \* some contentFile.WriteString returned an error
     tokens |-> <<>>,         \* what the tokenizer has still to deliver
     prevToken |-> NoToken,   \* *prevToken, NoToken for nil
     panic |-> "none",        \* the run-time panic unwinding the goroutine
     token |-> NoToken,       \* the token whose links are being processed
     pageURLStr |-> "",       \* the request URL of the page
     contentFilename |-> "",  \* the name of the page's file
     attrVal |-> "",          \* token.Attr[linkURIAttrIndex].Val of that token
     work |-> <<>>,           \* its references still to be processed
     stack |-> <<>>,          \* the active getAndWriteResourceToFile calls
     fetchedResources |-> {}, \* the map from resource URL to content type
     log |-> <<>>]            \* the task's fetches and rewrites, in order

EmptyDirectory == [p \in LedgerPaths |-> NoFile]

\* The program is started on a target directory that holds the files fs.
ProgramInitIn(fs, b, a) ==
    /\ run = 1
    /\ mainpc = "start"
    /\ files = fs
    /\ failureListFilename = GlobalFailureListFilenameInit
    /\ pageDirs = {}
    /\ force = FALSE
    /\ urlParses = TRUE
    /\ failedPageNumbers = {}
    /\ forumTopicPageNumbers = {}
    /\ pending = {}
    /\ failureListFile = "nil"
    /\ failureListFileMutex = NoPage
    /\ workers = 0
    /\ tasks = [p \in PageNumbers |-> IdleTask]
    /\ crashedBy = NoPage
    /\ prevFiles = EmptyDirectory
    /\ bodies = b
    /\ rangeArgs = a
    /\ args = <<>>

ProgramInit(b, a) == ProgramInitIn(EmptyDirectory, b, a)

\* No call of fetchLinkedResourcesInCSS is being followed.
NoCSSScan ==
    [pc |-> "idle", data |-> <<>>, css |-> <<>>, rewrittenCSSBuffer |-> <<>>,
     matches |-> <<>>]

InitWith(b, a) ==
    /\ ProgramInit(b, a)
    /\ filenames = <<>>
    /\ filenameContentType = ""
    /\ cssScan = NoCSSScan

Init == InitWith(OrchestratorBodies, RangeArgs)

ProcessAlive == mainpc \in {"spawn", "wait"}

(* -------------------------------- main -------------------------------- *)

\* An empty page set that is let through.
IsUsageErrorNever(numbers) == FALSE

\* if len(forumTopicPageNumbers) == 0, line 1071.
IsUsageError(numbers) == numbers = {}

\* A run that goes on although the ledger could not be created.
CreateErrorIgnored(createOK) == FALSE

\* if err != nil after os.Create, lines 1078-1081: TRUE when main returns.
CreateErrorAborts(createOK) == ~createOK

\* main, lines 1040-1082: recover the failed pages, add the ranges, reject an
\* empty set, create the ledger.
MainStart ==
    /\ mainpc = "start"
    /\ \E a \in rangeArgs, f \in BOOLEAN, parses \in BOOLEAN,
          openOK \in BOOLEAN, createOK \in BOOLEAN :
         LET gfd == getFailedDownloads(files, failureListFilename, openOK)
             failed == Range(gfd.failed)
             numbers == failed \cup PagesOfArgs(a)
         IN  /\ args' = a
             /\ force' = f
             /\ urlParses' = parses
             /\ prevFiles' = files
             /\ failedPageNumbers' = failed
             /\ forumTopicPageNumbers' = numbers
             /\ IF gfd.hangs
                THEN /\ mainpc' = "hung"
                     /\ UNCHANGED <<files, failureListFile, pending>>
                ELSE IF IsUsageError(numbers)
                THEN /\ mainpc' = "usage"              \* os.Exit(1)
                     /\ files' = gfd.files
                     /\ UNCHANGED <<failureListFile, pending>>
                ELSE IF CreateErrorAborts(createOK)
                THEN /\ mainpc' = "aborted"            \* return
                     /\ files' = gfd.files
                     /\ UNCHANGED <<failureListFile, pending>>
                ELSE /\ mainpc' = "spawn"
                     /\ files' = IF createOK
                                 THEN Create(gfd.files, mainFailureListFilename)
                                 ELSE gfd.files
                     /\ failureListFile' = IF createOK THEN "open" ELSE "nil"
                     /\ pending' = numbers
    /\ UNCHANGED <<run, failureListFilename, pageDirs, failureListFileMutex,
                   workers, tasks, crashedBy, bodies, rangeArgs, filenames,
                   filenameContentType,
                   cssScan>>

\* The skip test of the spawn loop, lines 1087-1098: TRUE when the page is
\* skipped.  statErr: os.Stat failed with something else than ENOENT.
SkipPage(n, f, statErr, dirs, failed) ==
    /\ ~f
    /\ \/ statErr
       \/ n \in dirs /\ n \notin failed

\* A range loop that visits a key again.
RemainingKeysAll(keys, n) == keys

\* range over the map forumTopicPageNumbers, line 1084: every key is visited
\* once; the keys still to visit after n.
RemainingKeys(keys, n) == keys \ {n}

\* One iteration of `for forumTopicPageNumber := range forumTopicPageNumbers`.
MainSpawn ==
    /\ mainpc = "spawn"
    /\ \E n \in pending, statErr \in BOOLEAN :
         /\ pending' = RemainingKeys(pending, n)
         /\ IF SkipPage(n, force, statErr, pageDirs, failedPageNumbers)
            THEN UNCHANGED <<workers, tasks>>
            ELSE /\ workers' = workers + 1
                 /\ tasks' = [tasks EXCEPT ![n] = [IdleTask EXCEPT !.pc = "start"]]
    /\ UNCHANGED <<run, mainpc, files, failureListFilename, pageDirs, force,
                   urlParses, failedPageNumbers, forumTopicPageNumbers,
                   failureListFile, failureListFileMutex, crashedBy,
                   prevFiles, bodies, rangeArgs, args, filenames, filenameContentType,
                   cssScan>>

\* The loop is over: main reaches workers.Wait().
MainLoopEnd ==
    /\ mainpc = "spawn"
    /\ pending = {}
    /\ mainpc' = "wait"
    /\ UNCHANGED <<run, files, failureListFilename, pageDirs, force, urlParses,
                   failedPageNumbers, forumTopicPageNumbers, pending,
                   failureListFile, failureListFileMutex, workers, tasks,
                   crashedBy, prevFiles, bodies, rangeArgs, args, filenames,
                   filenameContentType,
                   cssScan>>

\* A Wait that returns although tasks have not called Done.
WaitReturnsEarly(counter) == TRUE

\* TRUE when workers.Wait() may return.
WaitReturns(counter) == counter = 0

\* workers.Wait() returns, main returns and the deferred Close runs.
MainWait ==
    /\ mainpc = "wait"
    /\ WaitReturns(workers)
    /\ mainpc' = "done"
    /\ failureListFile' = "closed"
    /\ UNCHANGED <<run, files, failureListFilename, pageDirs, force, urlParses,
                   failedPageNumbers, forumTopicPageNumbers, pending,
                   failureListFileMutex, workers, tasks, crashedBy, prevFiles,
                   bodies, rangeArgs, args, filenames, filenameContentType,
                   cssScan>>

\* The tool is started again on the same target directory.
NewRun ==
    /\ mainpc \in {"done", "crashed", "aborted", "usage"}
    /\ run < MaxRuns
    /\ run' = run + 1
    /\ mainpc' = "start"
    /\ force' = FALSE
    /\ urlParses' = TRUE
    /\ failedPageNumbers' = {}
    /\ forumTopicPageNumbers' = {}
    /\ pending' = {}
    /\ failureListFile' = "nil"
    /\ failureListFileMutex' = NoPage
    /\ workers' = 0
    /\ tasks' = [p \in DOMAIN tasks |-> IdleTask]
    /\ crashedBy' = NoPage
    /\ prevFiles' = EmptyDirectory
    /\ args' = <<>>
    /\ UNCHANGED <<files, failureListFilename, pageDirs, bodies, rangeArgs,
                   filenames, filenameContentType,
                   cssScan>>

(* ------------------------------ page task ----------------------------- *)

IsTag(tok) == tok.type \in {"StartTag", "SelfClosingTag"}

\* Attribute names of the first case of the switch (matched by atom) and of
\* the default case (matched by string).
AtomLinkAttrs ==
    {"action", "code", "cite", "data", "formaction", "href", "icon",
     "manifest", "poster", "src", "srcset", "usemap"}
StringLinkAttrs ==
    {"archive", "background", "codebase", "classid", "lowsrc", "longdesc",
     "profile"}

\* The locals of the attribute scan before the loop (their zero values).
ScanStart ==
    [linkURIAttrAtom |-> "", linkURIAttrIndex |-> 0, linkURIStr |-> "",
     hasLinkURIAttr |-> FALSE, rel |-> "", hasRel |-> FALSE,
     styleIndex |-> 0, style |-> "", hasStyle |-> FALSE]

RECURSIVE ScanAttrsFrom(_, _, _)
\* for index, attr := range token.Attr, lines 914-936.
ScanAttrsFrom(attrs, index, st) ==
    IF index > Len(attrs) THEN st
    ELSE IF st.hasLinkURIAttr /\ st.hasRel THEN st          \* break
    ELSE LET attr == attrs[index]
             st2 ==
               IF attr.key \in AtomLinkAttrs
               THEN [st EXCEPT !.linkURIAttrAtom = attr.key,
                               !.linkURIAttrIndex = index,
                               !.linkURIStr = attr.val,
                               !.hasLinkURIAttr = TRUE]
               ELSE IF attr.key = "rel"
               THEN [st EXCEPT !.rel = attr.val, !.hasRel = TRUE]
               ELSE IF attr.key = "style"
               THEN [st EXCEPT !.styleIndex = index, !.style = attr.val,
                               !.hasStyle = TRUE]
               ELSE IF attr.key \in StringLinkAttrs
               THEN [st EXCEPT !.linkURIAttrIndex = index,
                               !.linkURIStr = attr.val,
                               !.hasLinkURIAttr = TRUE]
               ELSE st
         IN  ScanAttrsFrom(attrs, index + 1, st2)

ScanAttrs(tok) == ScanAttrsFrom(tok.attr, 1, ScanStart)

\* The token passes its data or its style attribute through
\* fetchLinkedResourcesInCSS, whose result is assigned to the task's err
\* (lines 903 and 946); that function never sets its err result.
AssignsCSSResultToErr(tok, prevToken) ==
    \/ prevToken.data = "style"
    \/ ScanAttrs(tok).hasStyle

\* The value of err after `styleData, err = fetchLinkedResourcesInCSS(...)`.
ErrAfterCSS(err) == FALSE

Task(p) == tasks[p]

SetTask(p, t) ==
    tasks' = [tasks EXCEPT ![p] = t]

MainVars == <<run, mainpc, failureListFilename, force, urlParses,
              failedPageNumbers, forumTopicPageNumbers, pending,
              failureListFile, crashedBy, prevFiles, bodies, rangeArgs, args,
              filenames, filenameContentType,
                   cssScan>>

\* A request URL that takes the page number for the number of pages before it.
PageURLWithoutOffset(p) ==
    forumTopicPageURLBase \o DecimalString(forumTopicPostStep * p)

\* pageURLStr, lines 849-850: the template followed by the post offset
\* forumTopicPostStep * (pageNumber - 1) in decimal.
PageURL(p) ==
    forumTopicPageURLBase \o Uint64String(postOffset(p))

\* pageURL.RawQuery of the page p.
PageRawQuery(p) == "start=" \o Uint64String(postOffset(p))

\* forumTopicPageTargetDir, line 1085, and targetHostDir, line 863, where
\* pageURL.Hostname() is forum.example.
forumTopicPageTargetDir(p) == Join(TargetDir, DecimalString(p))
targetHostDir(p) == Join(forumTopicPageTargetDir(p), "forum.example")

\* getLocalResourceRelativeReference, lines 599-608, of a hierarchical URL:
\* url.URL{Path, RawQuery}.String(), then the extension of the content type.
getLocalResourceRelativeReference(path, rawQuery, contentType) ==
    adjustResourceFilenameExtension(
        <<Separator>> \o ToSlash(path)
            \o (IF rawQuery # "" THEN <<"?", rawQuery>> ELSE <<>>),
        contentType)

\* filename of openFileForResourceContent, lines 611-612; the resource path
\* starts with the separator.
ContentFilename(hostDir, resourcePath) == hostDir \o Text(resourcePath)

\* Lines 849-861: the page URL is built and parsed.
TaskParseURL(p) ==
    /\ ProcessAlive
    /\ Task(p).pc = "start"
    /\ IF urlParses
       THEN SetTask(p, [Task(p) EXCEPT !.pc = "get",
                                       !.pageURLStr = PageURL(p)])
       ELSE SetTask(p, [Task(p) EXCEPT !.pc = "deferred", !.err = TRUE,
                                       !.pageURLStr = PageURL(p)])
    /\ UNCHANGED <<MainVars, files, pageDirs, failureListFileMutex, workers>>

\* Line 867: getResource; its error is assigned to err and not tested.
TaskGet(p) ==
    /\ ProcessAlive
    /\ Task(p).pc = "get"
    /\ \/ \E body \in bodies :
            SetTask(p, [Task(p) EXCEPT !.pc = "open", !.err = FALSE,
                                       !.tokens = body])
       \/ SetTask(p, [Task(p) EXCEPT !.pc = "open", !.err = TRUE,
                                     !.readerNil = TRUE])
    /\ UNCHANGED <<MainVars, files, pageDirs, failureListFileMutex, workers>>

\* The value of err after line 871, which assigns the result of
\* openFileForResourceContent to the same variable.
ErrAfterOpen(err, openFailed) == openFailed

\* Line 871: openFileForResourceContent (MkdirAll, then Create) for the page
\* URL, whose path is /topic, and for the content type getResource returned:
\* the header of the response, "" when the GET failed.
TaskOpenFile(p) ==
    /\ ProcessAlive
    /\ Task(p).pc = "open"
    /\ LET contentType == IF Task(p).readerNil THEN "" ELSE "text/html"
           resourcePath ==
               getLocalResourceRelativeReference(
                   << <<"topic">> >>, PageRawQuery(p), contentType)
           filename == ContentFilename(targetHostDir(p), resourcePath)
       IN  \/ /\ pageDirs' = pageDirs \cup {p}           \* both succeed
              /\ SetTask(p, [Task(p) EXCEPT !.pc = "tokens",
                               !.contentFilename = filename,
                               !.err = ErrAfterOpen(Task(p).err, FALSE)])
           \/ /\ pageDirs' = pageDirs \cup {p}           \* Create fails
              /\ SetTask(p, [Task(p) EXCEPT !.pc = "tokens", !.fileNil = TRUE,
                               !.contentFilename = filename,
                               !.err = ErrAfterOpen(Task(p).err, TRUE)])
           \/ /\ pageDirs' = pageDirs                     \* MkdirAll fails
              /\ SetTask(p, [Task(p) EXCEPT !.pc = "tokens", !.fileNil = TRUE,
                               !.contentFilename = filename,
                               !.err = ErrAfterOpen(Task(p).err, TRUE)])
    /\ UNCHANGED <<MainVars, files, failureListFileMutex, workers>>

\* The function returns or panics: its locals die, the deferred function runs.
Leave(t, why) ==
    [t EXCEPT !.pc = "deferred", !.panic = why, !.tokens = <<>>,
              !.prevToken = NoToken, !.token = NoToken, !.attrVal = "",
              !.work = <<>>,
              !.stack = <<>>, !.fetchedResources = {}]

\* The deferred write of one token, lines 883-889.
WriteToken(t, tok, writeOK) ==
    [t EXCEPT !.writeFailed = t.writeFailed \/ ~writeOK, !.prevToken = tok]

\* The references of a start or self-closing tag, in the order in which
\* lines 895-981 process them: the url() links of the style data or of the
\* style attribute, then the link attribute when it parses and is requisite.
TokenRefs(tok, prevToken) ==
    IF prevToken.data = "style"
    THEN CSSRefs(CSSLinks(tok.data))
    ELSE LET sc == ScanAttrs(tok)
         IN  (IF sc.hasStyle THEN CSSRefs(CSSLinks(sc.style)) ELSE <<>>)
             \o (IF /\ sc.hasLinkURIAttr
                    /\ LinkKind(sc.linkURIStr) # "bad"
                    /\ IsRequisite(sc.linkURIAttrAtom, tok.data, sc.hasRel, sc.rel)
                 THEN <<Ref(sc.linkURIStr, "attr")>>
                 ELSE <<>>)

\* Lines 976-980: a navigational link is replaced by its absolute URL.
NavigationalLog(p, tok, prevToken) ==
    LET sc == ScanAttrs(tok)
    IN  IF /\ prevToken.data # "style"
           /\ sc.hasLinkURIAttr
           /\ LinkKind(sc.linkURIStr) # "bad"
           /\ ~IsRequisite(sc.linkURIAttrAtom, tok.data, sc.hasRel, sc.rel)
        THEN << RefEvent(sc.linkURIStr,
                         ResolveReference(PageURL(p), sc.linkURIStr),
                         "absolute", "",
                         ResolveReference(PageURL(p), sc.linkURIStr)) >>
        ELSE <<>>

\* The value of the link attribute when the token is written: the absolute
\* URL of a navigational link (line 980), else attrVal, what the attribute
\* held or what replaceResourceReference put there.
AttrValWritten(p, tok, prevToken, attrVal) ==
    IF NavigationalLog(p, tok, prevToken) # <<>>
    THEN ResolveReference(PageURL(p), ScanAttrs(tok).linkURIStr)
    ELSE attrVal

\* The log entry of the deferred write of a tag that has a link attribute.
LinkWritten(tok, value) ==
    IF ScanAttrs(tok).hasLinkURIAttr
    THEN <<WriteEvent(tok, ScanAttrs(tok).linkURIStr, value)>>
    ELSE <<>>

\* The log entry of the deferred write of the text of a style element, which
\* tokenStringWithScriptAndStyleDataPreserved writes as token.Data holds it.
StyleDataWritten(tok, prevToken) ==
    IF tok.type = "Text" /\ prevToken.type = "StartTag" /\ prevToken.data = "style"
    THEN <<WriteEvent(tok, "", tok.data)>>
    ELSE <<>>

\* One turn of `for contentTokenizer.Next() != html.ErrorToken`, lines
\* 879-983, up to the first resource the token references.
TaskToken(p) ==
    /\ ProcessAlive
    /\ Task(p).pc = "tokens"
    /\ LET t == Task(p) IN
       IF t.readerNil
       THEN \* Next() reads from the nil reader
            SetTask(p, Leave(t, "nilReader"))
       ELSE IF t.tokens = <<>>
       THEN \* ErrorToken: the files are closed and the function returns
            SetTask(p, Leave(t, "none"))
       ELSE LET tok == Head(t.tokens)
                rest == [t EXCEPT !.tokens = Tail(t.tokens)]
            IN  IF IsTag(tok) /\ t.prevToken # NoToken
                   /\ TokenRefs(tok, t.prevToken) # <<>>
                THEN SetTask(p, [rest EXCEPT
                         !.pc = "links",
                         !.token = tok,
                         !.attrVal = ScanAttrs(tok).linkURIStr,
                         !.work = TokenRefs(tok, t.prevToken),
                         !.err = IF AssignsCSSResultToErr(tok, t.prevToken)
                                 THEN ErrAfterCSS(t.err) ELSE t.err])
                ELSE \E writeOK \in (IF t.fileNil THEN {FALSE} ELSE BOOLEAN) :
                     IF ~IsTag(tok)
                     THEN SetTask(p, WriteToken(
                              [rest EXCEPT !.log = @ \o
                                 StyleDataWritten(tok, t.prevToken)],
                              tok, writeOK))
                     ELSE IF t.prevToken = NoToken
                     THEN \* prevToken.DataAtom with prevToken == nil
                          SetTask(p, Leave(WriteToken(
                              [rest EXCEPT !.log = @ \o
                                 LinkWritten(tok, ScanAttrs(tok).linkURIStr)],
                              tok, writeOK), "nilPrevToken"))
                     ELSE SetTask(p, WriteToken(
                              [rest EXCEPT
                                 !.err = IF AssignsCSSResultToErr(tok, t.prevToken)
                                         THEN ErrAfterCSS(t.err) ELSE t.err,
                                 !.log = @ \o NavigationalLog(p, tok, t.prevToken)
                                    \o LinkWritten(tok, AttrValWritten(p, tok,
                                         t.prevToken, ScanAttrs(tok).linkURIStr))],
                              tok, writeOK))
    /\ UNCHANGED <<MainVars, files, pageDirs, failureListFileMutex, workers>>

\* The list the current reference is taken from: the links of the innermost
\* stylesheet being rewritten, or those of the token.
CurrentRefs(t) ==
    IF t.stack = <<>> THEN t.work ELSE t.stack[Len(t.stack)].links

\* context.baseURL of the current reference.
CurrentBase(p, t) ==
    IF t.stack = <<>> THEN PageURL(p) ELSE t.stack[Len(t.stack)].url

PopRef(t) ==
    IF t.stack = <<>>
    THEN [t EXCEPT !.work = Tail(@)]
    ELSE [t EXCEPT !.stack[Len(t.stack)].links = Tail(@)]

\* The reference is left as it was (fetchResourceFromLinkIfNecessary returns
\* false, or the link did not parse).
Unmodified(t, url) ==
    [PopRef(t) EXCEPT !.log = Append(@,
        RefEvent(Head(CurrentRefs(t)).link, url, "unmodified", "",
                 Head(CurrentRefs(t)).link))]

\* context.replaceResourceReference(reference), lines 651-662 and 674-679.
Localized(p, t, url, contentType) ==
    LET ref == Head(CurrentRefs(t))
        reference == LocalReference(CurrentBase(p, t), url, ref.link, contentType)
        logged == [PopRef(t) EXCEPT !.log = Append(@,
                      RefEvent(ref.link, url, "localized", contentType,
                               reference))]
    IN  IF ref.kind = "attr"
        THEN [logged EXCEPT !.attrVal = reference]
        ELSE logged

\* getAndWriteResourceToFile has returned (contentType, err) to lines 643-649
\* (or 666-672).
Returned(p, t, url, contentType, failed, errIsSet) ==
    LET logged == [t EXCEPT !.log = Append(@,
                      ReturnEvent(url, contentType, failed, errIsSet))]
    IN  IF errIsSet
        THEN Unmodified(logged, url)
        ELSE Localized(p, [logged EXCEPT !.fetchedResources =
                              CachePut(@, url, contentType)],
                       url, contentType)

\* A map that every page task reads and writes.
fetchedResourcesShared(p) ==
    UNION {tasks[q].fetchedResources : q \in PageNumbers}

\* fetchedResources := map[string]string{}, line 875: the map the task
\* created, which it passes in every resourceFetcherContext.
fetchedResourcesOf(p) == tasks[p].fetchedResources

\* fetchResourceFromLinkIfNecessary for the current reference, lines 630-683,
\* up to the return of getAndWriteResourceToFile or, for a stylesheet, up to
\* its call of fetchLinkedResourcesInCSS (line 741).
TaskLink(p) ==
    /\ ProcessAlive
    /\ Task(p).pc = "links"
    /\ CurrentRefs(Task(p)) # <<>>
    /\ LET t == Task(p)
           link == Head(CurrentRefs(t)).link
           kind == LinkKind(link)
           url == IF kind = "hier" THEN ResolveReference(CurrentBase(p, t), link)
                  ELSE link
           cached == WasResourceFetched(fetchedResourcesOf(p), url)
           \* line 642: if !wasResourceFetched; line 665: if wasResourceFetched
           fetches == IF kind = "hier" THEN ~cached ELSE cached
       IN  IF kind \in {"bad", "nopath"}
           THEN SetTask(p, Unmodified(t, url))
           ELSE IF ~fetches
           THEN SetTask(p, Localized(p, t, url,
                               CachedContentType(fetchedResourcesOf(p), url)))
           ELSE \E getOK \in (IF Len(t.stack) >= MaxDepth THEN {FALSE}
                                ELSE BOOLEAN),
                   openOK \in BOOLEAN, ioOK \in BOOLEAN :
                LET got == [t EXCEPT !.log = Append(@, GetEvent(url))]
                    ct == ContentTypeOf(url)
                IN  IF ~getOK
                    THEN SetTask(p, Returned(p, got, url, "", TRUE, TRUE))
                    ELSE IF IsCSS(ct)
                    THEN IF ~ioOK                      \* ioutil.ReadAll fails
                         THEN SetTask(p, Returned(p, got, url, ct, TRUE, TRUE))
                         ELSE SetTask(p, [got EXCEPT !.stack = Append(@,
                                  [url |-> url, contentType |-> ct,
                                   openFailed |-> ~openOK,
                                   links |-> CSSRefs(CSSLinks(BodyOf(url)))])])
                    ELSE SetTask(p, Returned(p, got, url, ct, ~openOK \/ ~ioOK,
                                     ErrAfterWriteTo(~openOK, ~ioOK)))
    /\ UNCHANGED <<MainVars, files, pageDirs, failureListFileMutex, workers>>

\* fetchLinkedResourcesInCSS has rewritten the stylesheet: it is written to
\* its file and getAndWriteResourceToFile returns, lines 741-756.
TaskLinkReturn(p) ==
    /\ ProcessAlive
    /\ Task(p).pc = "links"
    /\ Task(p).stack # <<>>
    /\ CurrentRefs(Task(p)) = <<>>
    /\ LET t == Task(p)
           frame == t.stack[Len(t.stack)]
           popped == [t EXCEPT !.stack = SubSeq(@, 1, Len(@) - 1)]
       IN  \E writeOK \in (IF frame.openFailed THEN {FALSE} ELSE BOOLEAN) :
              SetTask(p, Returned(p, popped, frame.url, frame.contentType,
                                  frame.openFailed \/ ~writeOK,
                                  ErrAfterCSSWrite(frame.openFailed, ~writeOK)))
    /\ UNCHANGED <<MainVars, files, pageDirs, failureListFileMutex, workers>>

\* Every reference of the token is done: the deferred write of the token.
TaskTokenEnd(p) ==
    /\ ProcessAlive
    /\ Task(p).pc = "links"
    /\ Task(p).stack = <<>>
    /\ Task(p).work = <<>>
    /\ LET t == Task(p) IN
       \E writeOK \in (IF t.fileNil THEN {FALSE} ELSE BOOLEAN) :
          SetTask(p, WriteToken(
              [t EXCEPT !.pc = "tokens", !.token = NoToken, !.attrVal = "",
                        !.log = @ \o NavigationalLog(p, t.token, t.prevToken)
                                  \o LinkWritten(t.token, AttrValWritten(p,
                                        t.token, t.prevToken, t.attrVal))],
              t.token, writeOK))
    /\ UNCHANGED <<MainVars, files, pageDirs, failureListFileMutex, workers>>

\* A Lock that does not exclude a second holder.
LockReturnsAlways(mutex) == TRUE

\* TRUE when failureListFileMutex.Lock() may return.
LockReturns(mutex) == mutex = NoPage

\* The deferred function, lines 839-847: if err != nil, Lock.
TaskDeferred(p) ==
    /\ ProcessAlive
    /\ Task(p).pc = "deferred"
    /\ IF Task(p).err
       THEN /\ LockReturns(failureListFileMutex)
            /\ failureListFileMutex' = p
            /\ SetTask(p, [Task(p) EXCEPT !.pc = "write"])
       ELSE /\ SetTask(p, [Task(p) EXCEPT !.pc = "unlocked"])
            /\ UNCHANGED failureListFileMutex
    /\ UNCHANGED <<MainVars, files, pageDirs, workers>>

\* failureListFile.WriteString(fmt.Sprintln(pageNumber)); Unlock.
TaskWrite(p) ==
    /\ ProcessAlive
    /\ Task(p).pc = "write"
    /\ files' = [files EXCEPT ![mainFailureListFilename].lines =
                                  Append(@, Sprintln(p))]
    /\ failureListFileMutex' = NoPage
    /\ SetTask(p, [Task(p) EXCEPT !.pc = "unlocked"])
    /\ UNCHANGED <<MainVars, pageDirs, workers>>

\* workers.Done(), the last statement of the deferred function.
TaskDone(p) ==
    /\ ProcessAlive
    /\ Task(p).pc = "unlocked"
    /\ workers' = workers - 1
    /\ SetTask(p, [Task(p) EXCEPT !.pc =
                      IF Task(p).panic = "none" THEN "finished" ELSE "panicked"])
    /\ UNCHANGED <<MainVars, files, pageDirs, failureListFileMutex>>

\* An unrecovered panic ends the process once the deferred function is over.
Crash(p) ==
    /\ ProcessAlive
    /\ Task(p).pc = "panicked"
    /\ mainpc' = "crashed"
    /\ crashedBy' = p
    /\ UNCHANGED <<run, files, failureListFilename, pageDirs, force, urlParses,
                   failedPageNumbers, forumTopicPageNumbers, pending,
                   failureListFile, failureListFileMutex, workers, tasks,
                   prevFiles, bodies, rangeArgs, args, filenames, filenameContentType,
                   cssScan>>

TaskStep(p) ==
    \/ TaskParseURL(p)
    \/ TaskGet(p)
    \/ TaskOpenFile(p)
    \/ TaskToken(p)
    \/ TaskDeferred(p)
    \/ TaskWrite(p)
    \/ TaskDone(p)
    \/ Crash(p)

Next ==
    \/ MainStart
    \/ MainSpawn
    \/ MainLoopEnd
    \/ MainWait
    \/ NewRun
    \/ \E p \in DOMAIN tasks : TaskStep(p)

Spec == Init /\ [][Next]_vars

\* One run of the tool on an empty target directory.
RunNext ==
    \/ MainStart
    \/ MainSpawn
    \/ MainLoopEnd
    \/ MainWait
    \/ \E p \in DOMAIN tasks : TaskStep(p)

RunSpec == Init /\ [][RunNext]_vars

\* One run for page 1 on a target directory that holds any set of ledger
\* and archive files, each of them empty or holding the line "1".
RotationInit ==
    /\ \E fs \in [LedgerPaths -> {NoFile, EmptyFile,
                                    [exists |-> TRUE, lines |-> <<Sprintln(1)>>]}] :
          ProgramInitIn(fs, OrchestratorBodies, PageArgs)
    /\ filenames = <<>>
    /\ filenameContentType = ""
    /\ cssScan = NoCSSScan

RotationSpec == RotationInit /\ [][RunNext]_vars

\* One run whose range token may name any unsigned number from 0 on.
RangeInit ==
    /\ run = 1
    /\ mainpc = "start"
    /\ files = EmptyDirectory
    /\ failureListFilename = GlobalFailureListFilenameInit
    /\ pageDirs = {}
    /\ force = FALSE
    /\ urlParses = TRUE
    /\ failedPageNumbers = {}
    /\ forumTopicPageNumbers = {}
    /\ pending = {}
    /\ failureListFile = "nil"
    /\ failureListFileMutex = NoPage
    /\ workers = 0
    /\ tasks = [p \in UintPageNumbers |-> IdleTask]
    /\ crashedBy = NoPage
    /\ prevFiles = EmptyDirectory
    /\ bodies = {<<DoctypeTok>>}
    /\ rangeArgs = UintRangeArgs
    /\ args = <<>>
    /\ filenames = <<>>
    /\ filenameContentType = ""
    /\ cssScan = NoCSSScan

RangeSpec == RangeInit /\ [][RunNext]_vars

\* One run for page 1 alone, on pages that reference resources.
PageInit == InitWith(PageBodies, PageArgs)

PageNext ==
    \/ MainStart
    \/ MainSpawn
    \/ MainLoopEnd
    \/ MainWait
    \/ \E p \in DOMAIN tasks :
          \/ TaskStep(p)
          \/ TaskLink(p)
          \/ TaskLinkReturn(p)
          \/ TaskTokenEnd(p)

PageSpec == PageInit /\ [][PageNext]_vars

\* One run for page 1 alone, on pages whose links are classified, fetched
\* and rewritten.
LinkInit == InitWith(LinkBodies, PageArgs)

LinkSpec == LinkInit /\ [][PageNext]_vars

\* One run for pages 1 and 2, which reference the same image.
CacheInit == InitWith(CacheBodies, CacheArgs)

CacheSpec == CacheInit /\ [][PageNext]_vars

(* -------------------------- extension normalizer ---------------------- *)

NormalizerInit ==
    /\ ProgramInit({}, {})
    /\ filenames \in {<<f>> : f \in Filenames}
    /\ filenameContentType \in ContentTypes
    /\ cssScan = NoCSSScan

\* filename = adjustResourceFilenameExtension(filename, contentType)
Normalize ==
    /\ Len(filenames) <= MaxApplications
    /\ filenames' = Append(filenames,
           adjustResourceFilenameExtension(filenames[Len(filenames)],
                                           filenameContentType))
    /\ UNCHANGED <<run, mainpc, files, failureListFilename, pageDirs, force,
                   urlParses, failedPageNumbers, forumTopicPageNumbers,
                   pending, failureListFile, failureListFileMutex, workers,
                   tasks, crashedBy, prevFiles, bodies, rangeArgs, args,
                   filenameContentType,
                   cssScan>>

NormalizerNext == Normalize

NormalizerSpec == NormalizerInit /\ [][NormalizerNext]_vars

\* The suffix the specification asks for with a content type, <<>> when the
\* content type has none of the known prefixes.
C17_SuffixFor(ct) ==
    IF HasPrefix(ct, "text/html") \/ HasPrefix(ct, "application/xhtml+xml")
    THEN <<".html">>
    ELSE IF HasPrefix(ct, "text/css") THEN <<".css">>
    ELSE IF HasPrefix(ct, "application/atom+xml") THEN <<".atom">>
    ELSE IF HasPrefix(ct, "application/rss+xml") THEN <<".rss">>
    ELSE <<>>

\* The endings with which a filename is already correct for a content type.
C17_AcceptedEndings(ct) ==
    IF HasPrefix(ct, "text/html") \/ HasPrefix(ct, "application/xhtml+xml")
    THEN HTMLNames \cup HTMNames
    ELSE IF HasPrefix(ct, "text/css") THEN CSSNames
    ELSE IF HasPrefix(ct, "application/atom+xml") THEN AtomNames
    ELSE IF HasPrefix(ct, "application/rss+xml") THEN RSSNames
    ELSE {}

\* The filename ends, case-insensitively, in one of the endings.
C17_EndsIn(filename, endings) ==
    filename # <<>> /\ filename[Len(filename)] \in endings

\* The result the specification describes for one application.
C17_Normalized(filename, ct) ==
    IF C17_SuffixFor(ct) = <<>> \/ C17_EndsIn(filename, C17_AcceptedEndings(ct))
    THEN filename
    ELSE filename \o C17_SuffixFor(ct)

\* C16: the normalizer is idempotent: a second application to the result of
\* the first, with the same content type, changes nothing.
C16_NormalizerIdempotent ==
    \A k \in 2 .. Len(filenames) - 1 : filenames[k + 1] = filenames[k]

\* C17: one application leaves the filename unchanged when the content type
\* is not a known one or the filename already ends in the suffix for it, and
\* appends exactly that suffix otherwise.
C17_NormalizerSuffix ==
    \A k \in 1 .. Len(filenames) - 1 :
        filenames[k + 1] = C17_Normalized(filenames[k], filenameContentType)

(* --------------------------- CSS link rewriter ------------------------- *)

\* A CSS text is a sequence of lexical pieces: the opening of a url()
\* occurrence up to its quote (group 1 of cssURLMatcher, with either quote
\* and with white space before the parenthesis), its closing quote and
\* parenthesis (group 3), a link that url.Parse accepts, one it rejects, a
\* line break, and other text.
CSSPieces == {"a{", "url('", "url (\"", "')", "i.png", "%zz", "\n"}

\* cssURLMatcher.FindSubmatchIndex(css), line 688: the positions of groups 1
\* and 3 of the leftmost match, (0, 0) when there is none.  The lazy group 2
\* ends at the first closing piece and does not span a line break.
FindSubmatchIndex(css) ==
    LET closes(k) == {j \in k + 1 .. Len(css) : css[j] = "')"}
        first(S) == CHOOSE j \in S : \A n \in S : j <= n
        matches(k) ==
            /\ css[k] \in {"url('", "url (\""}
            /\ closes(k) # {}
            /\ \A n \in k + 1 .. first(closes(k)) - 1 : css[n] # "\n"
        opens == {k \in 1 .. Len(css) : matches(k)}
    IN  IF opens = {}
        THEN [open |-> 0, close |-> 0]
        ELSE [open |-> first(opens), close |-> first(closes(first(opens)))]

\* A rewriter that writes nothing for an occurrence that was not localized.
MatchedTextDropped(css, urlMatch) == <<>>

\* css[urlMatch[0]:urlMatch[1]], line 708.
MatchedText(css, urlMatch) == SubSeq(css, urlMatch.open, urlMatch.close)

\* A scan that does not advance.
AfterMatchStuck(css, urlMatch) == css

\* css = css[urlMatch[1]:], lines 695 and 710.
AfterMatch(css, urlMatch) == SubSeq(css, urlMatch.close + 1, Len(css))

\* fetchLinkedResourcesInCSS is called with a CSS text.
CSSInit ==
    /\ ProgramInit({}, {})
    /\ filenames = <<>>
    /\ filenameContentType = ""
    /\ \E n \in 0 .. MaxCSSLen : \E data \in [1 .. n -> CSSPieces] :
          cssScan = [pc |-> "scan", data |-> data, css |-> data,
                     rewrittenCSSBuffer |-> <<>>, matches |-> <<>>]

\* One turn of the loop of lines 688-711.  fetchResourceFromLinkIfNecessary
\* returns true after one call of replaceResourceReference (lines 662 and
\* 679) and false without any (lines 637, 645, 654, 668).  Every match is
\* recorded with its positions in the text the function was called with.
CSSMatch ==
    /\ cssScan.pc = "scan"
    /\ FindSubmatchIndex(cssScan.css).open # 0
    /\ LET css == cssScan.css
           urlMatch == FindSubmatchIndex(css)
           linkURIStr == SubSeq(css, urlMatch.open + 1, urlMatch.close - 1)
           offset == Len(cssScan.data) - Len(css)
           match(result, reference) ==
               [open |-> offset + urlMatch.open,
                close |-> offset + urlMatch.close,
                result |-> result, reference |-> reference]
       IN  IF "%zz" \in Range(linkURIStr)              \* url.Parse fails
           THEN cssScan' = [cssScan EXCEPT
                    !.rewrittenCSSBuffer = @ \o SubSeq(css, 1, urlMatch.close),
                    !.css = AfterMatch(css, urlMatch),
                    !.matches = Append(@, match("unparsed", ""))]
           ELSE \/ \E reference \in {"i.png", "../i.png"} :
                     cssScan' = [cssScan EXCEPT
                         !.rewrittenCSSBuffer = @
                             \o SubSeq(css, 1, urlMatch.open - 1)
                             \o <<css[urlMatch.open], reference,
                                   css[urlMatch.close]>>,
                         !.css = AfterMatch(css, urlMatch),
                         !.matches = Append(@, match("localized", reference))]
                \/ cssScan' = [cssScan EXCEPT
                         !.rewrittenCSSBuffer = @
                             \o SubSeq(css, 1, urlMatch.open - 1)
                             \o MatchedText(css, urlMatch),
                         !.css = AfterMatch(css, urlMatch),
                         !.matches = Append(@, match("unmodified", ""))]
    /\ UNCHANGED <<run, mainpc, files, failureListFilename, pageDirs, force,
                   urlParses, failedPageNumbers, forumTopicPageNumbers,
                   pending, failureListFile, failureListFileMutex, workers,
                   tasks, crashedBy, prevFiles, bodies, rangeArgs, args,
                   filenames, filenameContentType>>

\* No match is left: lines 713-715 write the rest and return the buffer.
CSSReturn ==
    /\ cssScan.pc = "scan"
    /\ FindSubmatchIndex(cssScan.css).open = 0
    /\ cssScan' = [cssScan EXCEPT
           !.pc = "done",
           !.rewrittenCSSBuffer = @ \o cssScan.css]
    /\ UNCHANGED <<run, mainpc, files, failureListFilename, pageDirs, force,
                   urlParses, failedPageNumbers, forumTopicPageNumbers,
                   pending, failureListFile, failureListFileMutex, workers,
                   tasks, crashedBy, prevFiles, bodies, rangeArgs, args,
                   filenames, filenameContentType>>

CSSNext == CSSMatch \/ CSSReturn

CSSSpec == CSSInit /\ [][CSSNext]_vars

(* ------------------------- ledger and orchestration -------------------- *)

LedgerLines == files[mainFailureListFilename].lines
Recorded(p) == Sprintln(p) \in Range(LedgerLines)

\* The page numbers failures.lst held when the run started.
PreviouslyFailed == Range(ScanLines(prevFiles[mainFailureListFilename].lines))

\* main is past the creation of the ledger.
LedgerCreated == mainpc \in {"spawn", "wait", "done", "crashed"}

Spawned(p) == Task(p).pc # "idle"
\* The deferred function of the task is over.
Over(p) == Task(p).pc \in {"finished", "panicked"}

\* The page was fetched and every token was written to its file.
Persisted(p) ==
    /\ Task(p).pc = "finished"
    /\ ~Task(p).readerNil
    /\ ~Task(p).fileNil
    /\ ~Task(p).writeFailed

\* C1: the pages recorded in failures.lst by the previous run are all in the
\* effective page set of the next run, whatever its ranges.
C1_LedgerRoundTrip ==
    mainpc # "start" => PreviouslyFailed \subseteq forumTopicPageNumbers

\* C2: a task whose page GET failed, whose output file could not be created
\* or written, ends with its page number in the ledger of the run.
C2_PageFailureRecorded ==
    \A p \in PageNumbers :
        (Over(p) /\ (Task(p).readerNil \/ Task(p).fileNil \/ Task(p).writeFailed))
            => Recorded(p)

\* C3: the failed GET of one page does not end the run: the process is never
\* brought down by the task of a page whose GET failed.
C3_GetFailureIsolated ==
    \A p \in PageNumbers :
        Task(p).readerNil => ~(mainpc = "crashed" /\ crashedBy = p)

\* C4: once the new ledger is created, the previous ledger's content is kept
\* under an archive name and every archive that existed is unchanged.
C4_LedgerArchivedNotOverwritten ==
    (LedgerCreated /\ prevFiles[mainFailureListFilename].exists) =>
        /\ \E i \in 0 .. MaxArchive :
              files[ArchiveName(mainFailureListFilename, i)]
                  = prevFiles[mainFailureListFilename]
        /\ \A i \in 0 .. MaxArchive :
              prevFiles[ArchiveName(mainFailureListFilename, i)].exists =>
                  files[ArchiveName(mainFailureListFilename, i)]
                      = prevFiles[ArchiveName(mainFailureListFilename, i)]

\* The smallest N for which failures.lst.<N> did not exist at run start.
SmallestFreeArchive ==
    CHOOSE n \in 0 .. MaxArchive + 1 :
        /\ \A i \in 0 .. n - 1 :
              prevFiles[ArchiveName(mainFailureListFilename, i)].exists
        /\ n <= MaxArchive =>
              ~prevFiles[ArchiveName(mainFailureListFilename, n)].exists

\* C5: the previous ledger is found under failures.lst.<N>, N the smallest
\* index that was free.
C5_ArchivedUnderSmallestFreeIndex ==
    (LedgerCreated /\ prevFiles[mainFailureListFilename].exists
                   /\ SmallestFreeArchive <= MaxArchive) =>
        files[ArchiveName(mainFailureListFilename, SmallestFreeArchive)]
            = prevFiles[mainFailureListFilename]

\* C6: when the run ends, every page of the previous ledger is persisted or
\* is in the ledger of this run.
C6_LedgerEntriesSurvive ==
    mainpc = "done" =>
        \A n \in PreviouslyFailed :
            (n \in PageNumbers /\ Persisted(n)) \/ Sprintln(n) \in Range(LedgerLines)

\* C9: at most one task is writing a line to the ledger, and the writer
\* holds the mutex.
C9_LedgerWritesExclusive ==
    \A p, q \in PageNumbers :
        (Task(p).pc = "write" /\ Task(q).pc = "write")
            => (p = q /\ failureListFileMutex = p)

\* A task writes its line while another failed task waits for the mutex.
C9_Witness ==
    \E p, q \in PageNumbers :
        /\ p # q
        /\ Task(p).pc = "write"
        /\ Task(q).pc = "deferred" /\ Task(q).err

\* C10: main returns and the ledger is closed only when the deferred function
\* of every spawned task is over; no task can write to the ledger any more.
C10_JoinBarrier ==
    (mainpc = "done" \/ failureListFile = "closed") =>
        \A p \in PageNumbers : Spawned(p) => Over(p)

\* main has returned after two tasks, both of which wrote to the ledger.
C10_Witness ==
    /\ mainpc = "done"
    /\ failureListFile = "closed"
    /\ \A p \in PageNumbers : Over(p)
    /\ Len(LedgerLines) = MaxPage

(* ------------------------------ page selection ------------------------ *)

\* The pages the range tokens of the command line cover, together with the
\* pages of the ledger the previous run left.
C18_RequestedPages == PagesOfArgs(args) \cup PreviouslyFailed

\* C18: the effective page set is exactly the union of the pages of the
\* range tokens and of the pages of the previous ledger, and a page task is
\* only spawned for a member of it.
C18_EffectivePageSet ==
    /\ mainpc # "start" => forumTopicPageNumbers = C18_RequestedPages
    /\ \A p \in PageNumbers : Spawned(p) => p \in C18_RequestedPages

\* C19: a run whose effective page set is empty ends as a usage error: the
\* ledger file is neither created nor truncated, the files of the target
\* directory are as they were, and no page task is spawned.
C19_EmptySetIsUsageError ==
    (mainpc # "start" /\ forumTopicPageNumbers = {}) =>
        /\ mainpc = "usage"
        /\ failureListFile = "nil"
        /\ files = prevFiles
        /\ \A p \in PageNumbers : ~Spawned(p)

\* A run given a range token that covers no page is rejected.
C19_Witness ==
    /\ mainpc = "usage"
    /\ args # <<>>
    /\ PagesOfArgs(args) = {}
    /\ ~files[mainFailureListFilename].exists

\* C20: when the spawn loop visits a page, the page is fetched exactly when
\* force is set, or its target directory does not exist, or it is a page of
\* the previous ledger.
C20_SkipPolicy ==
    [][\A n \in PageNumbers :
          (mainpc = "spawn" /\ n \in pending /\ n \notin pending') =>
              (Spawned(n)' <=>
                  (force \/ n \notin pageDirs \/ n \in PreviouslyFailed))]_vars

(* --------------------------- resource fetch cache ---------------------- *)

Log(p) == Task(p).log
Events(p) == 1 .. Len(Log(p))

\* The number of http.Get calls of the task for url.
Gets(p, url) ==
    Cardinality({i \in Events(p) : Log(p)[i].ev = "get" /\ Log(p)[i].url = url})

\* i and j are two requisite references of the task to the same URL.
SameResource(p, i, j) ==
    /\ i < j
    /\ Log(p)[i].ev = "ref" /\ Log(p)[j].ev = "ref"
    /\ Log(p)[i].result # "absolute" /\ Log(p)[j].result # "absolute"
    /\ Log(p)[i].url = Log(p)[j].url

C8_FailedFetchReportedNotCached ==
    \A p \in PageNumbers :
        /\ \A i \in Events(p) :
              (Log(p)[i].ev = "return" /\ Log(p)[i].failed)
                  => Log(p)[i].result = "error"
        /\ \A e \in Task(p).fetchedResources :
              \E i \in Events(p) :
                  /\ Log(p)[i].ev = "return" /\ Log(p)[i].url = e[1]
                  /\ ~Log(p)[i].failed

\* C11: a page task reads and writes only the map it created: every
\* reference it localizes rests on a GET of that URL by the same task, and
\* every entry of its map was stored by a fetch of its own; a resource that
\* two pages reference is fetched by each of them.
C11_CachePerPageTask ==
    \A p \in PageNumbers :
        /\ \A j \in Events(p) :
              (/\ Log(p)[j].ev = "ref"
               /\ Log(p)[j].result = "localized"
               /\ LinkKind(Log(p)[j].link) = "hier")
                  => \E i \in Events(p) :
                        /\ i < j
                        /\ Log(p)[i].ev = "get"
                        /\ Log(p)[i].url = Log(p)[j].url
        /\ \A e \in Task(p).fetchedResources :
              \E i \in Events(p) :
                  /\ Log(p)[i].ev = "return"
                  /\ Log(p)[i].result = "ok"
                  /\ Log(p)[i].url = e[1]

\* Two page tasks have each localized a reference to the same image, and
\* each has fetched it once.
C11_Witness ==
    \E p, q \in PageNumbers :
        /\ p # q
        /\ \A r \in {p, q} :
              /\ Gets(r, "http://forum.example/img/a.png") = 1
              /\ \E j \in Events(r) :
                    /\ Log(r)[j].ev = "ref"
                    /\ Log(r)[j].result = "localized"
                    /\ Log(r)[j].url = "http://forum.example/img/a.png"

(* ------------------------------ link rewriting ------------------------ *)

\* The positions of the candidate link attributes of a tag.
C12_Candidates(tok) ==
    {k \in 1 .. Len(tok.attr) :
        tok.attr[k].key \in AtomLinkAttrs \cup StringLinkAttrs}

\* The name of the candidate link attribute of a tag that has one.
C12_LinkAttribute(tok) ==
    tok.attr[CHOOSE k \in C12_Candidates(tok) : TRUE].key

\* The tag has a rel attribute that contains stylesheet, icon or shortcut.
C12_RelContainsAny(tok) ==
    \E k \in 1 .. Len(tok.attr) :
        tok.attr[k].key = "rel" /\ IsRelInline(tok.attr[k].val)

\* The classification as the specification words it.
C12_Navigational(tok) ==
    \/ C12_LinkAttribute(tok) \in {"action", "formaction"}
    \/ C12_LinkAttribute(tok) = "href" /\ tok.data \in {"a", "area", "embed"}
    \/ /\ C12_LinkAttribute(tok) = "href"
       /\ tok.data = "link"
       /\ ~C12_RelContainsAny(tok)

\* Entry i of the log is the write of a tag with exactly one candidate link
\* attribute, whose link parses.
C12_LinkTagWritten(p, i) ==
    /\ Log(p)[i].ev = "write"
    /\ Cardinality(C12_Candidates(Log(p)[i].token)) = 1
    /\ LinkKind(Log(p)[i].link) # "bad"

\* C12: a link that the page task classified was made absolute without a
\* fetch exactly when the specification calls it navigational, and was
\* handed to the resource fetcher exactly when it calls it requisite.
C12_Classification ==
    \A p \in PageNumbers : \A i, j \in Events(p) :
        (/\ C12_LinkTagWritten(p, i)
         /\ j < i
         /\ Log(p)[j].ev = "ref"
         /\ Log(p)[j].link = Log(p)[i].link)
            => (C12_Navigational(Log(p)[i].token)
                    <=> Log(p)[j].result = "absolute")

\* A link element that has an href and no rel was classified, and its href
\* was made absolute.
C12_Witness ==
    \E p \in PageNumbers : \E i, j \in Events(p) :
        /\ C12_LinkTagWritten(p, i)
        /\ j < i
        /\ Log(p)[j].ev = "ref"
        /\ Log(p)[j].link = Log(p)[i].link
        /\ Log(p)[j].result = "absolute"
        /\ Log(p)[i].token.data = "link"
        /\ Len(Log(p)[i].token.attr) = 1

\* C13: every navigational link is written as its resolved absolute URL and
\* the task issues no GET for that URL, wherever the tag stands in the page.
C13_NavigationalAbsolute ==
    \A p \in PageNumbers : \A i \in Events(p) :
        (C12_LinkTagWritten(p, i) /\ C12_Navigational(Log(p)[i].token)) =>
            /\ Log(p)[i].reference
                   = ResolveReference(PageURL(p), Log(p)[i].link)
            /\ Gets(p, ResolveReference(PageURL(p), Log(p)[i].link)) = 0

\* URL.Host of the URLs of the model.
C14_Host(url) ==
    IF url \in {"http://other.example/b.png", "http://other.example/x"}
    THEN "other.example"
    ELSE "forum.example"

\* Entry i of the log is the write of a tag whose link is requisite and
\* hierarchical.
C14_RequisiteWritten(p, i) ==
    /\ C12_LinkTagWritten(p, i)
    /\ ~C12_Navigational(Log(p)[i].token)
    /\ LinkKind(Log(p)[i].link) = "hier"

\* C14: a requisite link to another host is not fetched and its attribute is
\* written as it was read.
C14_CrossHostNotFetched ==
    \A p \in PageNumbers : \A i \in Events(p) :
        LET url == ResolveReference(PageURL(p), Log(p)[i].link)
        IN  (C14_RequisiteWritten(p, i) /\ C14_Host(url) # C14_Host(PageURL(p)))
                => /\ Gets(p, url) = 0
                   /\ Log(p)[i].reference = Log(p)[i].link

\* The relative path from the page's directory to the resource's URL path,
\* followed by %3F and the raw query when there is one.
C15_RelativePath(p, url) ==
    ToSlash(Rel(Dir(PathOf(PageURL(p))), PathOf(url)))
        \o (IF RawQueryOf(url) # "" THEN <<"%3F", RawQueryOf(url)>> ELSE <<>>)

\* C15: a same-host requisite link whose fetch succeeded is written as the
\* relative path (and query), ending in the suffix of the fetched content
\* type: unchanged when it already ends in it, with the suffix appended
\* otherwise.
C15_LocalizedReference ==
    \A p \in PageNumbers : \A i, j \in Events(p) :
        LET url == ResolveReference(PageURL(p), Log(p)[i].link)
        IN  (/\ C14_RequisiteWritten(p, i)
             /\ C14_Host(url) = C14_Host(PageURL(p))
             /\ j < i
             /\ Log(p)[j].ev = "return"
             /\ Log(p)[j].url = url
             /\ ~Log(p)[j].failed)
                => Log(p)[i].reference
                       = Text(C17_Normalized(C15_RelativePath(p, url),
                                             Log(p)[j].contentType))

(* ------------------------ page task spawning ------------------------ *)

\* C21: when os.Create of the ledger fails at the start of a run, main
\* returns: the ledger handle stays nil, no page is left to visit and no page
\* task is spawned; a page task exists only in a run whose ledger was created.
C21_CreateFailureAborts ==
    /\ mainpc = "aborted" =>
          /\ failureListFile = "nil"
          /\ pending = {}
          /\ workers = 0
          /\ \A p \in PageNumbers : ~Spawned(p)
    /\ failureListFile = "nil" => \A p \in PageNumbers : ~Spawned(p)

\* A run with pages to fetch stopped at the creation of the ledger.
C21_Witness ==
    /\ mainpc = "aborted"
    /\ forumTopicPageNumbers # {}

\* C28: within one run every page number is visited once by the spawn loop:
\* a task is only ever spawned for a page that had none and that leaves the
\* pages still to visit, and a task that is over is never started again.
C28_NoRetry ==
    [][/\ workers' > workers =>
             \E p \in pending :
                 /\ ~Spawned(p)
                 /\ tasks'[p].pc = "start"
                 /\ p \notin pending'
       /\ \A p \in PageNumbers :
             (Over(p) /\ run' = run) => tasks'[p] = tasks[p]
       /\ \A p \in PageNumbers :
             (Spawned(p) /\ run' = run) => p \notin pending']_vars

\* The run is over and a page that failed in it stayed failed.
C28_Witness ==
    /\ mainpc = "done"
    /\ \E p \in PageNumbers : Over(p) /\ Recorded(p)

\* C30: the path whose file getFailedDownloads opened, read and renamed at
\* the start of the run is the path of the ledger main creates and the page
\* tasks append to, <targetDir>/failures.lst.
C30_SameLedgerPath ==
    mainpc # "start" => failureListFilename = mainFailureListFilename

(* ---------------------- page URL and page file ---------------------- *)

\* C26: the request URL of page n is the template followed by the decimal
\* value of step * (n - 1): with step 15, "...start=0" for page 1 and
\* "...start=15" for page 2.
C26_PageRequestURL ==
    \A p \in PageNumbers :
        Task(p).pc \notin {"idle", "start"} =>
            /\ Task(p).pageURLStr
                   = forumTopicPageURLBase
                         \o DecimalString(forumTopicPostStep * (p - 1))
            /\ p = 1 => Task(p).pageURLStr = "http://forum.example/topic?start=0"
            /\ p = 2 => Task(p).pageURLStr = "http://forum.example/topic?start=15"

\* The GET of page 2 was answered.
C26_Witness ==
    /\ Task(2).pc = "open"
    /\ ~Task(2).readerNil
    /\ Task(2).pageURLStr = "http://forum.example/topic?start=15"

\* C27: the file of a page served as text/html is
\* <targetDir>/<pageNumber>/<host>/<page path>.html; for page 2 of the
\* template it is t/2/forum.example/topic.html.
C27_PageFile ==
    \A p \in PageNumbers :
        (Task(p).pc \in {"tokens", "links"} /\ ~Task(p).readerNil
                                            /\ ~Task(p).fileNil) =>
            /\ Task(p).contentFilename
                   = Join(Join(Join(TargetDir, DecimalString(p)), "forum.example"),
                          "topic.html")
            /\ p = 2 => Task(p).contentFilename = "t/2/forum.example/topic.html"

(* ------------------ style data and link attributes ------------------ *)

\* The url() links of the style attributes of a tag, or of a text.
C24_StyleLinks(tok) ==
    IF tok.type = "Text" THEN Range(CSSLinks(tok.data))
    ELSE UNION {Range(CSSLinks(tok.attr[k].val)) :
                   k \in {n \in 1 .. Len(tok.attr) : tok.attr[n].key = "style"}}

\* C24: the style attribute of a written tag, wherever it stands among the
\* attributes, and the text of a written style element went through the CSS
\* link rewriter: each of their url() links was dealt with before the write.
C24_StylePassedThroughCSS ==
    \A p \in PageNumbers : \A i \in Events(p) :
        Log(p)[i].ev = "write" =>
            \A link \in C24_StyleLinks(Log(p)[i].token) :
                \E j \in 1 .. i - 1 :
                    Log(p)[j].ev = "ref" /\ Log(p)[j].link = link

\* The first candidate link attribute of a tag.
C29_First(tok) ==
    CHOOSE k \in C12_Candidates(tok) : \A n \in C12_Candidates(tok) : k <= n

\* C29: of several candidate link attributes the first in attribute order
\* is the one the page task reads and rewrites, and the name the
\* classification uses is the name of that attribute.
C29_FirstMatchWins ==
    \A p \in PageNumbers : \A i \in Events(p) :
        (/\ Log(p)[i].ev = "write"
         /\ Cardinality(C12_Candidates(Log(p)[i].token)) > 1) =>
            LET tok == Log(p)[i].token
                sc == ScanAttrs(tok)
            IN  /\ sc.linkURIAttrIndex = C29_First(tok)
                /\ Log(p)[i].link = tok.attr[C29_First(tok)].val
                /\ sc.linkURIAttrAtom # "" =>
                      sc.linkURIAttrAtom = tok.attr[sc.linkURIAttrIndex].key

\* C25: a resource whose GET, file creation or file write failed leaves its
\* reference as it was, and the page number is written to the ledger only
\* for a failure of the page itself (its URL, or its own file).
C25_ResourceFailureIsLocal ==
    \A p \in PageNumbers :
        /\ \A i \in Events(p) :
              (Log(p)[i].ev = "return" /\ Log(p)[i].failed) =>
                  /\ i + 1 \in Events(p)
                  /\ Log(p)[i + 1].ev = "ref"
                  /\ Log(p)[i + 1].url = Log(p)[i].url
                  /\ Log(p)[i + 1].reference = Log(p)[i + 1].link
        /\ Recorded(p) => (~urlParses \/ Task(p).fileNil)

(* ----------------------- rewritten CSS text --------------------------- *)

RECURSIVE C22_Rewritten(_, _, _)
\* The text data from position n on, in which the link of every localized
\* match is replaced by its reference and nothing else is changed.
C22_Rewritten(data, n, matches) ==
    IF matches = <<>> THEN SubSeq(data, n, Len(data))
    ELSE LET urlMatch == Head(matches)
         IN  IF urlMatch.result = "localized"
             THEN SubSeq(data, n, urlMatch.open) \o <<urlMatch.reference>>
                      \o C22_Rewritten(data, urlMatch.close, Tail(matches))
             ELSE SubSeq(data, n, urlMatch.close)
                      \o C22_Rewritten(data, urlMatch.close + 1, Tail(matches))

\* C22: what the CSS rewriter has written, followed by what it has still to
\* scan, is the input in which only the links of the localized url()
\* occurrences are replaced; the text it returns is that text, and it is the
\* input itself when no link was localized.
C22_OnlyLinksRewritten ==
    /\ cssScan.pc = "scan" =>
          cssScan.rewrittenCSSBuffer \o cssScan.css
              = C22_Rewritten(cssScan.data, 1, cssScan.matches)
    /\ cssScan.pc = "done" =>
          /\ cssScan.rewrittenCSSBuffer
                 = C22_Rewritten(cssScan.data, 1, cssScan.matches)
          /\ (\A k \in 1 .. Len(cssScan.matches) :
                  cssScan.matches[k].result # "localized")
                 => cssScan.rewrittenCSSBuffer = cssScan.data

\* A text with two occurrences was rewritten: one link was localized, the
\* other occurrence was not.
C22_Witness ==
    /\ cssScan.pc = "done"
    /\ Len(cssScan.matches) = 2
    /\ \E k \in 1 .. 2 : cssScan.matches[k].result = "localized"
    /\ \E k \in 1 .. 2 : cssScan.matches[k].result # "localized"
    /\ cssScan.rewrittenCSSBuffer # cssScan.data

\* C23: every turn of the scan loop takes at least the matched url() span
\* off the text that is left, so the text strictly shrinks and the loop ends
\* after at most one turn per piece of the input.
C23_ScanShrinks ==
    [][(cssScan.pc = "scan" /\ cssScan'.pc = "scan" /\ cssScan' # cssScan) =>
          LET urlMatch == cssScan'.matches[Len(cssScan'.matches)]
          IN  /\ Len(cssScan'.matches) = Len(cssScan.matches) + 1
              /\ Len(cssScan'.css) < Len(cssScan.css)
              /\ Len(cssScan.css) - Len(cssScan'.css)
                     >= urlMatch.close - urlMatch.open + 1
              /\ Len(cssScan'.matches) <= Len(cssScan.data)]_vars

\* The loop has ended after two turns that consumed the whole text.
C23_Witness ==
    /\ cssScan.pc = "done"
    /\ Len(cssScan.matches) = 2
    /\ cssScan.css = <<>>
    /\ cssScan.data # <<>>

(* ---------------------------- ledger rotation -------------------------- *)

C32_StylesheetFetchedOnce ==
    \A p \in PageNumbers : \A i, j \in Events(p) :
        (/\ i < j
         /\ Log(p)[i].ev = "get" /\ Log(p)[j].ev = "get"
         /\ Log(p)[i].url = Log(p)[j].url
         /\ IsCSS(ContentTypeOf(Log(p)[i].url))) =>
            \E k \in i + 1 .. j - 1 :
                /\ Log(p)[k].ev = "return"
                /\ Log(p)[k].url = Log(p)[i].url
                /\ Log(p)[k].result = "error"

(* ------------------------- the task's err variable --------------------- *)

\* C33: when the GET of the page or the creation of its file has failed,
\* err is still set when the function is left and its deferred function
\* tests it.
C33_PageErrorKept ==
    \A p \in PageNumbers :
        (Task(p).pc = "deferred" /\ (Task(p).readerNil \/ Task(p).fileNil))
            => Task(p).err

(* ------------------------- the first token of a page ------------------- *)

\* C34: no page task panics on the previous token, whatever the first token
\* of the page is, and so no task brings the process down for that reason.
C34_FirstTokenHandled ==
    \A p \in PageNumbers :
        /\ Task(p).panic # "nilPrevToken"
        /\ (mainpc = "crashed" /\ crashedBy = p) => Task(p).readerNil

(* ------------------------------ page zero ------------------------------ *)

\* C35: every page task is spawned with a page number of at least
\* forumTopicMinPageNumber, so its post offset is the product
\* forumTopicPostStep * (pageNumber - 1) itself and not its residue
\* modulo 2^64.
C35_PageNumberAtLeastOne ==
    \A p \in DOMAIN tasks :
        Task(p).pc # "idle" =>
            /\ p >= forumTopicMinPageNumber
            /\ Task(p).pageURLStr \in
                   {"", forumTopicPageURLBase
                            \o DecimalString(forumTopicPostStep * (p - 1))}

====
